---- MODULE Spec2Model ----
(***************************************************************************)
(* MoodFlix dialogue engine: RecommenderChatBot (src/app/chat.py).         *)
(* One action per branch of handle_message; the per-user dictionaries of   *)
(* the bot are the state.  The intent extractor, the strategy detector     *)
(* and the catalog fetch are collaborators whose results are inputs.       *)
(***************************************************************************)
EXTENDS Integers, FiniteSets, Sequences, TLC

\* ---------------------------------------------------------------- bounds
NumItems == 2
MaxTime == 301

\* ------------------------------------------------------ program constants
IdleThreshold == 300
Limit == 3

\* ---------------------------------------------------------------- domains
None == "None"
Users == {"u1"}
Items == 1 .. NumItems
LegalTypes == {"movie", "series", "music"}
ExtractorTypes == LegalTypes \cup {"unknown"}
Moods == {"neutral", "triste"}
Genres == {None, "terror"}
DetectedStrategies == {None, "match", "contrast"}
Gaps == {0, IdleThreshold + 1}

\* What parse_user_intent_with_openai returns: match_strategy is always None.
ParsedIntents ==
    [type : ExtractorTypes, mood : Moods, genre : Genres, match_strategy : {None}]

NoParsed == [type |-> None, mood |-> None, genre |-> None, match_strategy |-> None]

\* The extractions that differ for an answer: the pending flow reads the type
\* and the mood of what it extracts from an answer, never the genre.
AnswerIntents == {p \in ParsedIntents : p.genre = None}

VARIABLES pending_intents, waiting_for, last_recommendation, last_activity,
          recommended_ids, current_page, turn, catalog, faulty, text, ranking

vars == <<pending_intents, waiting_for, last_recommendation, last_activity,
          recommended_ids, current_page, turn, catalog, faulty, text, ranking>>

\* ------------------------------------------------------- dict operations
Pop(dict, k) == [x \in (DOMAIN dict) \ {k} |-> dict[x]]

Put(dict, k, v) == [x \in (DOMAIN dict) \cup {k} |-> IF x = k THEN v ELSE dict[x]]

Get(dict, k, default) == IF k \in DOMAIN dict THEN dict[k] ELSE default

\* Python truthiness of a mood / genre / type string (None is falsy).
Truthy(v) == v # None

NeutralMood(mood) == ~Truthy(mood) \/ mood = "neutral"

ConcreteMood(mood) == Truthy(mood) /\ mood # "neutral"

\* ------------------------------------------------------------------ clock
RECURSIVE MaxOf(_)
MaxOf(S) == IF S = {} THEN 0
            ELSE LET x == CHOOSE y \in S : TRUE
                     m == MaxOf(S \ {x})
                 IN  IF x > m THEN x ELSE m

\* time.time(): no earlier than any timestamp already stored.
Now(d) == MaxOf({last_activity[x] : x \in DOMAIN last_activity}) + d

\* ------------------------------------------------------------ idle expiry
\* Variant: a gap of exactly the threshold expires the session.
ExpiredAtThreshold(u, now) ==
    u \in DOMAIN last_activity /\ now - last_activity[u] >= IdleThreshold

Expired(u, now) == u \in DOMAIN last_activity /\ now - last_activity[u] > IdleThreshold

ExpireIdle(dict, u, now) == IF Expired(u, now) THEN Pop(dict, u) ELSE dict

\* Variant: the idle check drops the seen ids with the rest of the session.
ExpireIdsWithSession(ids, u, now) == IF Expired(u, now) THEN Pop(ids, u) ELSE ids

\* The idle check does not touch recommended_ids.
ExpireIds(ids, u, now) == ids

\* ---------------------------------------------------------- catalog fetch
\* get_*_recommendations(parsed, seen_ids): up to Limit items of the catalog,
\* none of them in seen_ids; the empty result is also what a failed fetch
\* returns.
FetchCandidates(seen) == {R \in SUBSET (catalog \ seen) : Cardinality(R) <= Limit}

\* ------------------------------------------- _build_recommendation_text
\* Variant: the retry is made without clearing the seen set.
BuildRetryKeepsSeen(ids, parsed, uid) ==
    IF parsed.type \notin LegalTypes
    THEN {[ids |-> ids, shown |-> {}, out |-> "mixed", reset |-> FALSE,
           fetched |-> 0, seen |-> {}, slots |-> parsed]}
    ELSE LET seen == IF uid # None THEN Get(ids, uid, {}) ELSE {}
             retry == uid # None /\ seen # {}
             ids1 == IF retry THEN Put(ids, uid, {}) ELSE ids
             Done(idsx, recs, reset, n, given) ==
                 [ids |-> IF recs # {} /\ uid # None
                          THEN Put(idsx, uid, Get(idsx, uid, {}) \cup recs)
                          ELSE idsx,
                  shown |-> recs, out |-> IF recs = {} THEN "empty" ELSE "rec",
                  reset |-> reset, fetched |-> n, seen |-> given, slots |-> parsed]
         IN  {Done(ids, r1, FALSE, 1, seen) : r1 \in FetchCandidates(seen) \ {{}}}
             \cup (IF retry
                   THEN {Done(ids, r2, TRUE, 2, seen) : r2 \in FetchCandidates(seen)}
                   ELSE {Done(ids, {}, FALSE, 1, seen)})

\* All results the call can have: the new recommended_ids, the ids returned,
\* the kind of text, whether the seen set was reset, the number of fetches,
\* the seen set handed to the last of them and the slots they were made with.
BuildRecommendationText(ids, parsed, uid) ==
    IF parsed.type \notin LegalTypes
    THEN {[ids |-> ids, shown |-> {}, out |-> "mixed", reset |-> FALSE,
           fetched |-> 0, seen |-> {}, slots |-> parsed]}
    ELSE LET seen == IF uid # None THEN Get(ids, uid, {}) ELSE {}
             retry == uid # None /\ seen # {}
             ids1 == IF retry THEN Put(ids, uid, {}) ELSE ids
             Done(idsx, recs, reset, n, given) ==
                 [ids |-> IF recs # {} /\ uid # None
                          THEN Put(idsx, uid, Get(idsx, uid, {}) \cup recs)
                          ELSE idsx,
                  shown |-> recs, out |-> IF recs = {} THEN "empty" ELSE "rec",
                  reset |-> reset, fetched |-> n, seen |-> given, slots |-> parsed]
         IN  {Done(ids, r1, FALSE, 1, seen) : r1 \in FetchCandidates(seen) \ {{}}}
             \cup (IF retry
                   THEN {Done(ids1, r2, TRUE, 2, {}) : r2 \in FetchCandidates({})}
                   ELSE {Done(ids, {}, FALSE, 1, seen)})

\* ------------------------------------------------------------ new request
\* The five cases of a new request: what is answered, the question key, the
\* slots kept, and whether they become the pending intent or the last
\* recommendation.
\* Variant: the mood-only case stores the key of the mood question.
NewRequestWrongKey(parsed, strategy) ==
    IF Truthy(parsed.genre) /\ NeutralMood(parsed.mood) /\ parsed.type \in LegalTypes
    THEN [res |-> "rec", key |-> None, ask |-> None,
          parsed |-> [parsed EXCEPT !.match_strategy = "match"]]
    ELSE IF parsed.type \in LegalTypes /\ ConcreteMood(parsed.mood)
    THEN IF Truthy(strategy)
         THEN [res |-> "rec", key |-> None, ask |-> None,
               parsed |-> [parsed EXCEPT !.match_strategy = strategy]]
         ELSE [res |-> "question", key |-> "strategy", ask |-> "strategy", parsed |-> parsed]
    ELSE IF parsed.type \in LegalTypes /\ NeutralMood(parsed.mood)
    THEN [res |-> "question", key |-> "mood", ask |-> "mood", parsed |-> parsed]
    ELSE IF parsed.type = "unknown" /\ ConcreteMood(parsed.mood)
    THEN [res |-> "question", key |-> "mood", ask |-> "type", parsed |-> parsed]
    ELSE [res |-> "clarify", key |-> None, ask |-> None, parsed |-> parsed]

\* Variant: a request with no type is asked for the type whatever its mood.
NewRequestAsksTypeAlways(parsed, strategy) ==
    IF Truthy(parsed.genre) /\ NeutralMood(parsed.mood) /\ parsed.type \in LegalTypes
    THEN [res |-> "rec", key |-> None, ask |-> None,
          parsed |-> [parsed EXCEPT !.match_strategy = "match"]]
    ELSE IF parsed.type \in LegalTypes /\ ConcreteMood(parsed.mood)
    THEN IF Truthy(strategy)
         THEN [res |-> "rec", key |-> None, ask |-> None,
               parsed |-> [parsed EXCEPT !.match_strategy = strategy]]
         ELSE [res |-> "question", key |-> "strategy", ask |-> "strategy", parsed |-> parsed]
    ELSE IF parsed.type \in LegalTypes /\ NeutralMood(parsed.mood)
    THEN [res |-> "question", key |-> "mood", ask |-> "mood", parsed |-> parsed]
    ELSE [res |-> "question", key |-> "type", ask |-> "type", parsed |-> parsed]

\* Variant: the genre-only case does not look at the type.
NewRequestGenreFirst(parsed, strategy) ==
    IF Truthy(parsed.genre) /\ NeutralMood(parsed.mood)
    THEN [res |-> "rec", key |-> None, ask |-> None,
          parsed |-> [parsed EXCEPT !.match_strategy = "match"]]
    ELSE IF parsed.type \in LegalTypes /\ ConcreteMood(parsed.mood)
    THEN IF Truthy(strategy)
         THEN [res |-> "rec", key |-> None, ask |-> None,
               parsed |-> [parsed EXCEPT !.match_strategy = strategy]]
         ELSE [res |-> "question", key |-> "strategy", ask |-> "strategy", parsed |-> parsed]
    ELSE IF parsed.type \in LegalTypes /\ NeutralMood(parsed.mood)
    THEN [res |-> "question", key |-> "mood", ask |-> "mood", parsed |-> parsed]
    ELSE IF parsed.type = "unknown" /\ ConcreteMood(parsed.mood)
    THEN [res |-> "question", key |-> "type", ask |-> "type", parsed |-> parsed]
    ELSE [res |-> "clarify", key |-> None, ask |-> None, parsed |-> parsed]

NewRequest(parsed, strategy) ==
    IF Truthy(parsed.genre) /\ NeutralMood(parsed.mood) /\ parsed.type \in LegalTypes
    THEN [res |-> "rec", key |-> None, ask |-> None,
          parsed |-> [parsed EXCEPT !.match_strategy = "match"]]
    ELSE IF parsed.type \in LegalTypes /\ ConcreteMood(parsed.mood)
    THEN IF Truthy(strategy)
         THEN [res |-> "rec", key |-> None, ask |-> None,
               parsed |-> [parsed EXCEPT !.match_strategy = strategy]]
         ELSE [res |-> "question", key |-> "strategy", ask |-> "strategy", parsed |-> parsed]
    ELSE IF parsed.type \in LegalTypes /\ NeutralMood(parsed.mood)
    THEN [res |-> "question", key |-> "mood", ask |-> "mood", parsed |-> parsed]
    ELSE IF parsed.type = "unknown" /\ ConcreteMood(parsed.mood)
    THEN [res |-> "question", key |-> "type", ask |-> "type", parsed |-> parsed]
    ELSE [res |-> "clarify", key |-> None, ask |-> None, parsed |-> parsed]

\* ------------------------------------------------------- pending answers
\* parsed is the pending intent (mutated in place by the code), new_parsed the
\* extraction of the answer.  uid tells whether the recommendation call is
\* given the user id.
AnswerType(parsed, new_parsed) ==
    IF Truthy(new_parsed.type) /\ new_parsed.type # "unknown"
    THEN LET p == [parsed EXCEPT !.type = new_parsed.type]
         IN  IF Truthy(p.genre) /\ NeutralMood(p.mood)
             THEN [res |-> "rec", key |-> None, ask |-> None, uid |-> TRUE,
                   parsed |-> [p EXCEPT !.match_strategy = "match"]]
             ELSE IF ConcreteMood(p.mood)
             THEN [res |-> "question", key |-> "strategy", ask |-> "strategy", uid |-> FALSE, parsed |-> p]
             ELSE [res |-> "rec", key |-> None, ask |-> None, uid |-> FALSE,
                   parsed |-> [p EXCEPT !.match_strategy = "match"]]
    ELSE [res |-> "clarify", key |-> "type", ask |-> None, uid |-> FALSE, parsed |-> parsed]

\* Variant: the answer replaces the pending intent instead of completing it.
AnswerMoodFresh(parsed, new_parsed) ==
    IF ConcreteMood(new_parsed.mood)
    THEN [res |-> "question", key |-> "strategy", ask |-> "strategy", uid |-> FALSE,
          parsed |-> new_parsed]
    ELSE [res |-> "rec", key |-> None, ask |-> None, uid |-> FALSE,
          parsed |-> [parsed EXCEPT !.mood = "neutral", !.match_strategy = "match"]]

\* Variant: an answer without a concrete mood leads to the recommendation
\* with no strategy set.
AnswerMoodNoStrategy(parsed, new_parsed) ==
    IF ConcreteMood(new_parsed.mood)
    THEN [res |-> "question", key |-> "strategy", ask |-> "strategy", uid |-> FALSE,
          parsed |-> [parsed EXCEPT !.mood = new_parsed.mood]]
    ELSE [res |-> "rec", key |-> None, ask |-> None, uid |-> FALSE,
          parsed |-> [parsed EXCEPT !.mood = "neutral"]]

\* Variant: the mood is taken but the key of the mood question stays pending.
AnswerMoodKeepsKey(parsed, new_parsed) ==
    IF ConcreteMood(new_parsed.mood)
    THEN [res |-> "question", key |-> "mood", ask |-> "strategy", uid |-> FALSE,
          parsed |-> [parsed EXCEPT !.mood = new_parsed.mood]]
    ELSE [res |-> "rec", key |-> None, ask |-> None, uid |-> FALSE,
          parsed |-> [parsed EXCEPT !.mood = "neutral", !.match_strategy = "match"]]

AnswerMood(parsed, new_parsed) ==
    IF ConcreteMood(new_parsed.mood)
    THEN [res |-> "question", key |-> "strategy", ask |-> "strategy", uid |-> FALSE,
          parsed |-> [parsed EXCEPT !.mood = new_parsed.mood]]
    ELSE [res |-> "rec", key |-> None, ask |-> None, uid |-> FALSE,
          parsed |-> [parsed EXCEPT !.mood = "neutral", !.match_strategy = "match"]]

\* Variant: the mood of the answer is taken whatever it is.
AnswerStrategyTakesAnyMood(parsed, new_parsed, strategy) ==
    LET p == [parsed EXCEPT !.mood = new_parsed.mood]
    IN  IF ~Truthy(strategy)
        THEN [res |-> "clarify", key |-> "strategy", ask |-> None, uid |-> FALSE, parsed |-> p]
        ELSE [res |-> "rec", key |-> None, ask |-> None, uid |-> FALSE,
              parsed |-> [p EXCEPT !.match_strategy = strategy]]

AnswerStrategy(parsed, new_parsed, strategy) ==
    LET p == IF ConcreteMood(new_parsed.mood)
             THEN [parsed EXCEPT !.mood = new_parsed.mood]
             ELSE parsed
    IN  IF ~Truthy(strategy)
        THEN [res |-> "clarify", key |-> "strategy", ask |-> None, uid |-> FALSE, parsed |-> p]
        ELSE [res |-> "rec", key |-> None, ask |-> None, uid |-> FALSE,
              parsed |-> [p EXCEPT !.match_strategy = strategy]]

PendingAnswer(waiting, parsed, new_parsed, strategy) ==
    IF waiting = "type" THEN AnswerType(parsed, new_parsed)
    ELSE IF waiting = "mood" THEN AnswerMood(parsed, new_parsed)
    ELSE AnswerStrategy(parsed, new_parsed, strategy)

\* ------------------------------------------------------- candidate scorer
\* The scorer of the design (section 4.3): the score of a candidate is the sum
\* of two layers, each a sum of integer deltas looked up by genre tag; the
\* candidates are sorted by it, descending and stable.
GenreTags == {"horror", "thriller", "family", "animation"}

SocialContexts == {"alone", "family"}

RestrictionCategory(r) ==
    IF r = "no_horror" THEN {"horror"} ELSE IF r = "no_animation" THEN {"animation"} ELSE {}

\* The tables of deltas: for the context family a boost for the tags family
\* and animation and a subtraction for horror and dark thriller, for the
\* context alone a boost for horror and thriller; one penalty per active
\* restriction.
SocialTable(t) ==
    [ctx \in SocialContexts |->
        [tag \in GenreTags |->
            IF ctx = "family"
            THEN CASE tag = "family" -> t.family
                   [] tag = "animation" -> t.animation
                   [] tag = "horror" -> 0 - t.horror
                   [] OTHER -> 0 - t.thriller
            ELSE IF tag \in {"horror", "thriller"} THEN t.alone ELSE 0]]

\* The magnitudes the design allows: the subtractions of the family branch
\* are larger than any positive boost of that branch, and a restriction
\* penalty is at least any single boost.
Magnitudes ==
    {t \in [family : 1 .. 2, animation : 1 .. 2, alone : {1}, horror : 2 .. 4,
            thriller : 2 .. 3, restriction : 2 .. 3] :
        /\ t.horror > t.family /\ t.horror > t.animation
        /\ t.thriller > t.family /\ t.thriller > t.animation
        /\ t.restriction >= t.family /\ t.restriction >= t.animation
        /\ t.restriction >= t.alone}

RECURSIVE SumOver(_, _)
SumOver(S, f) ==
    IF S = {} THEN 0
    ELSE LET x == CHOOSE y \in S : TRUE IN f[x] + SumOver(S \ {x}, f)

SocialScore(tags, ctx, t) == SumOver(tags, SocialTable(t)[ctx])

RestrictionScore(tags, restrictions, t) ==
    0 - t.restriction
          * Cardinality({r \in restrictions : tags \cap RestrictionCategory(r) # {}})

\* Variant: the social layer of the family branch leaves horror alone.
ScoreWithoutFamilyOverride(tags, ctx, restrictions, t) ==
    SocialScore(tags \ (IF ctx = "family" THEN {"horror"} ELSE {}), ctx, t)
        + RestrictionScore(tags, restrictions, t)

Score(tags, ctx, restrictions, t) ==
    SocialScore(tags, ctx, t) + RestrictionScore(tags, restrictions, t)

\* The stable descending sort: candidate i comes after every candidate with a
\* higher score and after the earlier ones with the same score.  The result
\* lists the positions of the input in ranking order.
RankCandidates(cands, ctx, restrictions, t) ==
    LET sc(i) == Score(cands[i], ctx, restrictions, t)
        before(i) == {j \in DOMAIN cands : sc(j) > sc(i) \/ (sc(j) = sc(i) /\ j < i)}
    IN  [k \in DOMAIN cands |-> CHOOSE i \in DOMAIN cands : Cardinality(before(i)) = k - 1]

NoRanking ==
    [tables |-> [family |-> 0, animation |-> 0, alone |-> 0, horror |-> 0,
                 thriller |-> 0, restriction |-> 0],
     context |-> None, restrictions |-> {}, candidates |-> <<>>, ranked |-> <<>>]

\* ------------------------------------------------------------------- Init
\* The message handle_message is called with, as far as its branches read it:
\* whether it holds a greeting word, a 'more' word, which type the words of a
\* type change name, what the extractor makes of it and what the strategy
\* detector.  NoText: the message is not looked at, the kind of each turn is
\* given.
NoText ==
    [greeting |-> FALSE, more |-> FALSE, tipo_change |-> None,
     parsed |-> NoParsed, strategy |-> None]

NoTurn ==
    [user |-> None, kind |-> "init", out |-> None, asked |-> None, shown |-> {},
     reset |-> FALSE, fetched |-> 0, seen |-> {}, slots |-> NoParsed,
     parsed |-> NoParsed, waited |-> None, raised |-> FALSE, failed |-> FALSE]

\* The dictionaries of a bot just constructed.
NoSessions ==
    /\ pending_intents = <<>>
    /\ waiting_for = <<>>
    /\ last_recommendation = <<>>
    /\ last_activity = <<>>
    /\ recommended_ids = <<>>
    /\ current_page = <<>>
    /\ turn = NoTurn

Init ==
    /\ NoSessions
    /\ catalog = Items
    /\ faulty = FALSE
    /\ text = NoText
    /\ ranking = NoRanking

\* The turn just processed and its reply: whose it was, which branch of
\* handle_message served it, the kind of text returned, the slot a question in
\* it asks for, the ids of the items in it, whether the seen set was reset, how
\* often the catalog was fetched and with which slots, the extraction of a new
\* request, and the key that was pending when the message arrived.
TurnRecord(u, kind, out, asked, b, parsed) ==
    [user |-> u, kind |-> kind, out |-> out, asked |-> asked, shown |-> b.shown,
     reset |-> b.reset, fetched |-> b.fetched, seen |-> b.seen, slots |-> b.slots,
     parsed |-> parsed, waited |-> Get(waiting_for, u, None),
     raised |-> FALSE, failed |-> FALSE]

\* The replies that end with save_conversation_history.
SavesHistory(out) == out \in {"rec", "empty", "mixed", "question"}

\* The ways the turn can go with its collaborators: save_conversation_history
\* may raise where it is called (nothing catches it, so handle_message raises
\* instead of returning the text), and a first fetch that returned nothing may
\* have been a failed one (the fetch functions return [] on any exception).
TurnRecords(u, kind, out, asked, b, parsed) ==
    IF ~faulty
    THEN {TurnRecord(u, kind, out, asked, b, parsed)}
    ELSE {[TurnRecord(u, kind, out, asked, b, parsed) EXCEPT !.raised = r, !.failed = f] :
            r \in IF SavesHistory(out) THEN BOOLEAN ELSE {FALSE},
            f \in IF b.fetched = 2 \/ out = "empty" THEN BOOLEAN ELSE {FALSE}}

NoBuild == [shown |-> {}, reset |-> FALSE, fetched |-> 0, seen |-> {}, slots |-> NoParsed]

\* Every message: the idle check ran and the timestamp is refreshed.
Arrive(u, d) ==
    /\ Now(d) <= MaxTime
    /\ last_activity' = Put(last_activity, u, Now(d))
    /\ current_page' = current_page
    /\ UNCHANGED <<catalog, faulty, text, ranking>>

\* ---------------------------------------------------------------- actions
\* Variant: the greeting clears the dictionaries instead of the user's entries.
GreetingClearsEveryone(u, d) ==
    /\ Arrive(u, d)
    /\ pending_intents' = <<>>
    /\ waiting_for' = <<>>
    /\ last_recommendation' = <<>>
    /\ recommended_ids' = <<>>
    /\ turn' \in TurnRecords(u, "greeting", "welcome", None, NoBuild, NoParsed)

\* Variant: the greeting drops the pending question and keeps the pending
\* intent.
GreetingKeepsPending(u, d) ==
    /\ Arrive(u, d)
    /\ pending_intents' = ExpireIdle(pending_intents, u, Now(d))
    /\ waiting_for' = Pop(ExpireIdle(waiting_for, u, Now(d)), u)
    /\ last_recommendation' = Pop(ExpireIdle(last_recommendation, u, Now(d)), u)
    /\ recommended_ids' = Pop(ExpireIds(recommended_ids, u, Now(d)), u)
    /\ turn' \in TurnRecords(u, "greeting", "welcome", None, NoBuild, NoParsed)

\* Variant: the greeting keeps the seen ids.
GreetingKeepsHistory(u, d) ==
    /\ Arrive(u, d)
    /\ pending_intents' = Pop(ExpireIdle(pending_intents, u, Now(d)), u)
    /\ waiting_for' = Pop(ExpireIdle(waiting_for, u, Now(d)), u)
    /\ last_recommendation' = Pop(ExpireIdle(last_recommendation, u, Now(d)), u)
    /\ recommended_ids' = ExpireIds(recommended_ids, u, Now(d))
    /\ turn' \in TurnRecords(u, "greeting", "welcome", None, NoBuild, NoParsed)

Greeting(u, d) ==
    /\ Arrive(u, d)
    /\ pending_intents' = Pop(ExpireIdle(pending_intents, u, Now(d)), u)
    /\ waiting_for' = Pop(ExpireIdle(waiting_for, u, Now(d)), u)
    /\ last_recommendation' = Pop(ExpireIdle(last_recommendation, u, Now(d)), u)
    /\ recommended_ids' = Pop(ExpireIds(recommended_ids, u, Now(d)), u)
    /\ turn' \in TurnRecords(u, "greeting", "welcome", None, NoBuild, NoParsed)

\* Variant: 'more' consumes the pending question.
MoreConsumesPending(u, d) ==
    LET lr == ExpireIdle(last_recommendation, u, Now(d))
    IN  /\ Arrive(u, d)
        /\ u \in DOMAIN lr
        /\ \E b \in BuildRecommendationText(ExpireIds(recommended_ids, u, Now(d)), lr[u], u) :
              /\ recommended_ids' = b.ids
              /\ turn' \in TurnRecords(u, "more", b.out, None, b, NoParsed)
        /\ pending_intents' = Pop(pending_intents, u)
        /\ waiting_for' = Pop(waiting_for, u)
        /\ last_recommendation' = lr

\* Variant: 'more' builds its text without the user id.
MoreWithoutUserId(u, d) ==
    LET lr == ExpireIdle(last_recommendation, u, Now(d))
    IN  /\ Arrive(u, d)
        /\ u \in DOMAIN lr
        /\ \E b \in BuildRecommendationText(ExpireIds(recommended_ids, u, Now(d)), lr[u], None) :
              /\ recommended_ids' = b.ids
              /\ turn' \in TurnRecords(u, "more", b.out, None, b, NoParsed)
        /\ pending_intents' = ExpireIdle(pending_intents, u, Now(d))
        /\ waiting_for' = ExpireIdle(waiting_for, u, Now(d))
        /\ last_recommendation' = lr

More(u, d) ==
    LET lr == ExpireIdle(last_recommendation, u, Now(d))
    IN  /\ Arrive(u, d)
        /\ u \in DOMAIN lr
        /\ \E b \in BuildRecommendationText(ExpireIds(recommended_ids, u, Now(d)), lr[u], u) :
              /\ recommended_ids' = b.ids
              /\ turn' \in TurnRecords(u, "more", b.out, None, b, NoParsed)
        /\ pending_intents' = ExpireIdle(pending_intents, u, Now(d))
        /\ waiting_for' = ExpireIdle(waiting_for, u, Now(d))
        /\ last_recommendation' = lr

\* Variant: the no-context reply forgets the seen ids.
MoreNoContextClears(u, d) ==
    LET lr == ExpireIdle(last_recommendation, u, Now(d))
    IN  /\ Arrive(u, d)
        /\ u \notin DOMAIN lr
        /\ pending_intents' = ExpireIdle(pending_intents, u, Now(d))
        /\ waiting_for' = ExpireIdle(waiting_for, u, Now(d))
        /\ last_recommendation' = lr
        /\ recommended_ids' = Pop(recommended_ids, u)
        /\ turn' \in TurnRecords(u, "more", "nocontext", None, NoBuild, NoParsed)

MoreNoContext(u, d) ==
    LET lr == ExpireIdle(last_recommendation, u, Now(d))
    IN  /\ Arrive(u, d)
        /\ u \notin DOMAIN lr
        /\ pending_intents' = ExpireIdle(pending_intents, u, Now(d))
        /\ waiting_for' = ExpireIdle(waiting_for, u, Now(d))
        /\ last_recommendation' = lr
        /\ recommended_ids' = ExpireIds(recommended_ids, u, Now(d))
        /\ turn' \in TurnRecords(u, "more", "nocontext", None, NoBuild, NoParsed)

\* Variant: a type change keeps the seen ids.
TypeChangeKeepsSeen(u, d, tipo_change) ==
    LET lr == ExpireIdle(last_recommendation, u, Now(d))
    IN  /\ Arrive(u, d)
        /\ u \in DOMAIN lr
        /\ LET last == [lr[u] EXCEPT !.type = tipo_change]
           IN  /\ last_recommendation' = Put(lr, u, last)
               /\ \E b \in BuildRecommendationText(
                              ExpireIds(recommended_ids, u, Now(d)), last, u) :
                     /\ recommended_ids' = b.ids
                     /\ turn' \in TurnRecords(u, "change", b.out, None, b, NoParsed)
        /\ pending_intents' = ExpireIdle(pending_intents, u, Now(d))
        /\ waiting_for' = ExpireIdle(waiting_for, u, Now(d))

\* Variant: a type change drops the pending question.
TypeChangeDropsQuestion(u, d, tipo_change) ==
    LET lr == ExpireIdle(last_recommendation, u, Now(d))
    IN  /\ Arrive(u, d)
        /\ u \in DOMAIN lr
        /\ LET last == [lr[u] EXCEPT !.type = tipo_change]
           IN  /\ last_recommendation' = Put(lr, u, last)
               /\ \E b \in BuildRecommendationText(
                              Pop(ExpireIds(recommended_ids, u, Now(d)), u), last, u) :
                     /\ recommended_ids' = b.ids
                     /\ turn' \in TurnRecords(u, "change", b.out, None, b, NoParsed)
        /\ pending_intents' = Pop(pending_intents, u)
        /\ waiting_for' = Pop(waiting_for, u)

TypeChange(u, d, tipo_change) ==
    LET lr == ExpireIdle(last_recommendation, u, Now(d))
    IN  /\ Arrive(u, d)
        /\ u \in DOMAIN lr
        /\ LET last == [lr[u] EXCEPT !.type = tipo_change]
           IN  /\ last_recommendation' = Put(lr, u, last)
               /\ \E b \in BuildRecommendationText(
                              Pop(ExpireIds(recommended_ids, u, Now(d)), u), last, u) :
                     /\ recommended_ids' = b.ids
                     /\ turn' \in TurnRecords(u, "change", b.out, None, b, NoParsed)
        /\ pending_intents' = ExpireIdle(pending_intents, u, Now(d))
        /\ waiting_for' = ExpireIdle(waiting_for, u, Now(d))

\* Variant: the slots of an answered request are stored only when items were
\* found.
PendingFlowStoresOnSuccess(u, d, kind, new_parsed, strategy) ==
    LET wf == ExpireIdle(waiting_for, u, Now(d))
        pi == ExpireIdle(pending_intents, u, Now(d))
        lr == ExpireIdle(last_recommendation, u, Now(d))
        ids == ExpireIds(recommended_ids, u, Now(d))
    IN  /\ Arrive(u, d)
        /\ u \in DOMAIN wf
        /\ strategy # None => wf[u] = "strategy"
        /\ LET a == PendingAnswer(wf[u], pi[u], new_parsed, strategy)
           IN  CASE a.res = "rec" ->
                      /\ waiting_for' = Pop(wf, u)
                      /\ pending_intents' = Pop(pi, u)
                      /\ \E b \in BuildRecommendationText(
                                     ids, a.parsed, IF a.uid THEN u ELSE None) :
                            /\ last_recommendation' =
                                  IF b.out = "rec" THEN Put(lr, u, a.parsed) ELSE lr
                            /\ recommended_ids' = b.ids
                            /\ turn' \in TurnRecords(u, kind, b.out, None, b, NoParsed)
                 [] a.res = "question" ->
                      /\ waiting_for' = Put(wf, u, a.key)
                      /\ pending_intents' = Put(pi, u, a.parsed)
                      /\ last_recommendation' = lr
                      /\ recommended_ids' = ids
                      /\ turn' \in TurnRecords(u, kind, "question", a.ask, NoBuild, NoParsed)
                 [] OTHER ->
                      /\ waiting_for' = wf
                      /\ pending_intents' = Put(pi, u, a.parsed)
                      /\ last_recommendation' = lr
                      /\ recommended_ids' = ids
                      /\ turn' \in TurnRecords(u, kind, "clarify", None, NoBuild, NoParsed)

\* The flow of a message that is no greeting, no 'more' and no type change,
\* while a question is pending.  kind names the turn in its record.  strategy
\* is what detect_strategy_from_text returns where it is called: for an answer
\* to the strategy question and for a new request with a type and a mood.
PendingFlow(u, d, kind, new_parsed, strategy) ==
    LET wf == ExpireIdle(waiting_for, u, Now(d))
        pi == ExpireIdle(pending_intents, u, Now(d))
        lr == ExpireIdle(last_recommendation, u, Now(d))
        ids == ExpireIds(recommended_ids, u, Now(d))
    IN  /\ Arrive(u, d)
        /\ u \in DOMAIN wf
        /\ strategy # None => wf[u] = "strategy"
        /\ LET a == PendingAnswer(wf[u], pi[u], new_parsed, strategy)
           IN  CASE a.res = "rec" ->
                      /\ waiting_for' = Pop(wf, u)
                      /\ pending_intents' = Pop(pi, u)
                      /\ last_recommendation' = Put(lr, u, a.parsed)
                      /\ \E b \in BuildRecommendationText(
                                     ids, a.parsed, IF a.uid THEN u ELSE None) :
                            /\ recommended_ids' = b.ids
                            /\ turn' \in TurnRecords(u, kind, b.out, None, b, NoParsed)
                 [] a.res = "question" ->
                      /\ waiting_for' = Put(wf, u, a.key)
                      /\ pending_intents' = Put(pi, u, a.parsed)
                      /\ last_recommendation' = lr
                      /\ recommended_ids' = ids
                      /\ turn' \in TurnRecords(u, kind, "question", a.ask, NoBuild, NoParsed)
                 [] OTHER ->
                      /\ waiting_for' = wf
                      /\ pending_intents' = Put(pi, u, a.parsed)
                      /\ last_recommendation' = lr
                      /\ recommended_ids' = ids
                      /\ turn' \in TurnRecords(u, kind, "clarify", None, NoBuild, NoParsed)

\* The same while no question is pending: a new request.
NewFlow(u, d, kind, parsed, strategy) ==
    LET wf == ExpireIdle(waiting_for, u, Now(d))
        pi == ExpireIdle(pending_intents, u, Now(d))
        lr == ExpireIdle(last_recommendation, u, Now(d))
        ids == ExpireIds(recommended_ids, u, Now(d))
        extraction == IF kind = "new" THEN parsed ELSE NoParsed
    IN  /\ Arrive(u, d)
        /\ u \notin DOMAIN wf
        /\ strategy # None => (parsed.type \in LegalTypes /\ ConcreteMood(parsed.mood))
        /\ LET a == NewRequest(parsed, strategy)
           IN  CASE a.res = "rec" ->
                      /\ waiting_for' = wf
                      /\ pending_intents' = pi
                      /\ last_recommendation' = Put(lr, u, a.parsed)
                      /\ \E b \in BuildRecommendationText(ids, a.parsed, None) :
                            /\ recommended_ids' = b.ids
                            /\ turn' \in TurnRecords(u, kind, b.out, None, b, extraction)
                 [] a.res = "question" ->
                      /\ waiting_for' = Put(wf, u, a.key)
                      /\ pending_intents' = Put(pi, u, a.parsed)
                      /\ last_recommendation' = lr
                      /\ recommended_ids' = ids
                      /\ turn' \in TurnRecords(u, kind, "question", a.ask, NoBuild, extraction)
                 [] OTHER ->
                      /\ waiting_for' = wf
                      /\ pending_intents' = pi
                      /\ last_recommendation' = lr
                      /\ recommended_ids' = ids
                      /\ turn' \in TurnRecords(u, kind, "clarify", None, NoBuild, extraction)

\* An ordinary message while a question is pending.
Answer(u, d, new_parsed, strategy) == PendingFlow(u, d, "answer", new_parsed, strategy)

\* An ordinary message while no question is pending.
Request(u, d, parsed, strategy) == NewFlow(u, d, "new", parsed, strategy)

\* /start, /reset, /reiniciar: handle_start hands the text "/start" to
\* handle_message.  It holds none of the greeting, 'more', type-change or
\* strategy words, so it takes the ordinary flow with no strategy detected.
StartCommand(u, d, parsed) ==
    \/ PendingFlow(u, d, "start", parsed, None)
    \/ NewFlow(u, d, "start", parsed, None)

\* One call of handle_message(u, text), d seconds after the latest message.
Turn(u, d) ==
    \/ Greeting(u, d)
    \/ More(u, d)
    \/ MoreNoContext(u, d)
    \/ \E t \in LegalTypes : TypeChange(u, d, t)
    \/ \E p \in AnswerIntents, s \in DetectedStrategies : Answer(u, d, p, s)
    \/ \E p \in ParsedIntents, s \in DetectedStrategies : Request(u, d, p, s)

Next == \E u \in Users, d \in Gaps : Turn(u, d)

Spec == Init /\ [][Next]_vars

\* The same with the reset commands of the transport.
NextWithCommands ==
    \/ Next
    \/ \E u \in Users, d \in Gaps, p \in ParsedIntents : StartCommand(u, d, p)

SpecWithCommands == Init /\ [][NextWithCommands]_vars

\* ------------------------------------------------- failing collaborators
\* The same turns when writing the history file can fail and a catalog API
\* can be down.
InitWithFaults ==
    /\ NoSessions
    /\ catalog = Items
    /\ faulty = TRUE
    /\ text = NoText
    /\ ranking = NoRanking

NextWithFaults == \E u \in Users : Turn(u, 0)

SpecWithFaults == InitWithFaults /\ [][NextWithFaults]_vars

\* -------------------------------------------------------------- two users
\* Two users who write in any order, over a catalog of one item, asking for
\* movies with or without a mood.
TwoUsers == {"u1", "u2"}

FewIntents == {p \in ParsedIntents : p.genre = None /\ p.type = "movie"}

InitTwoUsers ==
    /\ NoSessions
    /\ catalog = {1}
    /\ faulty = FALSE
    /\ text = NoText
    /\ ranking = NoRanking

NextTwoUsers ==
    \E u \in TwoUsers, d \in Gaps :
        \/ Greeting(u, d)
        \/ More(u, d)
        \/ MoreNoContext(u, d)
        \/ TypeChange(u, d, "movie")
        \/ \E p \in FewIntents, s \in {None, "match"} : Answer(u, d, p, s)
        \/ \E p \in FewIntents, s \in {None, "match"} : Request(u, d, p, s)

SpecTwoUsers == InitTwoUsers /\ [][NextTwoUsers]_vars

\* ------------------------------------------------------- gaps around 300 s
\* The two users again, asking for movies for a mood, with messages half the
\* idle threshold apart or one second more: a user's own gap is 300 s or 301 s when the other user wrote
\* in between.
HalfGaps == {0, IdleThreshold \div 2, IdleThreshold \div 2 + 1}

\* A request for movies that names a mood.
SadMovies == {p \in FewIntents : ConcreteMood(p.mood)}

NextHalfGaps ==
    \E u \in TwoUsers, d \in HalfGaps :
        \/ Greeting(u, d)
        \/ More(u, d)
        \/ MoreNoContext(u, d)
        \/ TypeChange(u, d, "movie")
        \/ \E p \in SadMovies, s \in {None, "match"} : Answer(u, d, p, s)
        \/ \E p \in SadMovies, s \in {None, "match"} : Request(u, d, p, s)

SpecHalfGaps == InitTwoUsers /\ [][NextHalfGaps]_vars

\* ---------------------------------------------------------- the extractor
\* What the language model may put in its JSON reply: any string or nothing
\* (None: the key is missing or null) for the type and for the mood.
RawTypes == LegalTypes \cup {"unknown", "podcast", None}

RawMoods == Moods \cup {"feliz", None}

RawReplies == [type : RawTypes, mood : RawMoods, genre : Genres]

\* Variant: the type of the reply is passed on as it came.
ParseKeepsRawType(raw) ==
    [type |-> raw.type,
     mood |-> IF Truthy(raw.mood) THEN raw.mood ELSE "neutral",
     genre |-> raw.genre, match_strategy |-> None]

\* parse_user_intent_with_openai, from the reply on: a type that is not one of
\* the three becomes "music", a missing mood "neutral", match_strategy None.
ParseUserIntentWithOpenai(raw) ==
    [type |-> IF raw.type \in LegalTypes THEN raw.type ELSE "music",
     mood |-> IF Truthy(raw.mood) THEN raw.mood ELSE "neutral",
     genre |-> raw.genre, match_strategy |-> None]

\* Ordinary messages whose extraction is computed from the model's reply.
NextWithExtractor ==
    \E u \in Users :
        \/ Greeting(u, 0)
        \/ \E raw \in RawReplies, s \in DetectedStrategies :
              Answer(u, 0, ParseUserIntentWithOpenai(raw), s)
        \/ \E raw \in RawReplies, s \in DetectedStrategies :
              Request(u, 0, ParseUserIntentWithOpenai(raw), s)

SpecWithExtractor == Init /\ [][NextWithExtractor]_vars

\* ------------------------------------------------- a catalog of 2 * Limit
\* A genre request followed by 'more' turns, over a catalog that holds twice
\* as many items as one reply.
LargeCatalog == 1 .. (2 * Limit)

GenreRequests == {p \in ParsedIntents : p.type = "movie" /\ p.mood = "neutral" /\ Truthy(p.genre)}

InitLargeCatalog ==
    /\ NoSessions
    /\ catalog = LargeCatalog
    /\ faulty = FALSE
    /\ text = NoText
    /\ ranking = NoRanking

NextLargeCatalog ==
    \E u \in Users :
        \/ Greeting(u, 0)
        \/ More(u, 0)
        \/ MoreNoContext(u, 0)
        \/ \E p \in GenreRequests : Request(u, 0, p, None)

SpecLargeCatalog == InitLargeCatalog /\ [][NextLargeCatalog]_vars

\* ------------------------------------------------- the text of a message
\* Variant: a pending question is looked at before the 'more' words and the
\* words of a type change.
HandleMessagePendingFirst(u, d) ==
    LET wf == ExpireIdle(waiting_for, u, Now(d))
        lr == ExpireIdle(last_recommendation, u, Now(d))
        asked == text.parsed.type \in LegalTypes /\ ConcreteMood(text.parsed.mood)
    IN  IF text.greeting THEN Greeting(u, d)
        ELSE IF u \in DOMAIN wf
        THEN Answer(u, d, text.parsed, IF wf[u] = "strategy" THEN text.strategy ELSE None)
        ELSE IF text.more THEN More(u, d) \/ MoreNoContext(u, d)
        ELSE IF text.tipo_change # None /\ u \in DOMAIN lr
        THEN TypeChange(u, d, text.tipo_change)
        ELSE Request(u, d, text.parsed, IF asked THEN text.strategy ELSE None)

\* handle_message(u, text): the chain of tests on the text, in the order of
\* the code.  The strategy detector is called only for an answer to the
\* strategy question and for a new request with a type and a concrete mood.
HandleMessage(u, d) ==
    LET wf == ExpireIdle(waiting_for, u, Now(d))
        lr == ExpireIdle(last_recommendation, u, Now(d))
        asked == text.parsed.type \in LegalTypes /\ ConcreteMood(text.parsed.mood)
    IN  IF text.greeting THEN Greeting(u, d)
        ELSE IF text.more THEN More(u, d) \/ MoreNoContext(u, d)
        ELSE IF text.tipo_change # None /\ u \in DOMAIN lr
        THEN TypeChange(u, d, text.tipo_change)
        ELSE IF u \in DOMAIN wf
        THEN Answer(u, d, text.parsed, IF wf[u] = "strategy" THEN text.strategy ELSE None)
        ELSE Request(u, d, text.parsed, IF asked THEN text.strategy ELSE None)

\* The user writes the next message.
Receive(msg) ==
    /\ text' = msg
    /\ text' # text
    /\ UNCHANGED <<pending_intents, waiting_for, last_recommendation, last_activity,
                   recommended_ids, current_page, turn, catalog, faulty, ranking>>

\* Messages with none of the greeting, 'more' and type-change words.
PlainTexts ==
    {[greeting |-> FALSE, more |-> FALSE, tipo_change |-> None, parsed |-> p, strategy |-> s] :
        p \in ParsedIntents, s \in DetectedStrategies}

InitOneItem ==
    /\ NoSessions
    /\ catalog = {1}
    /\ faulty = FALSE
    /\ text \in PlainTexts
    /\ ranking = NoRanking

NextPlainTexts ==
    \/ \E msg \in PlainTexts : Receive(msg)
    \/ \E u \in Users : HandleMessage(u, 0)

SpecPlainTexts == InitOneItem /\ [][NextPlainTexts]_vars

\* Messages with any of the greeting, 'more' and type-change words, or none,
\* around a genre request for movies or a movie request with a mood.
MovieIntents ==
    {p \in ParsedIntents : p.type = "movie" /\ ((p.mood = "neutral") <=> Truthy(p.genre))}

Texts ==
    [greeting : BOOLEAN, more : BOOLEAN, tipo_change : {None, "series"},
     parsed : MovieIntents, strategy : {None, "match"}]

InitWithTexts ==
    /\ NoSessions
    /\ catalog = {1}
    /\ faulty = FALSE
    /\ text \in Texts
    /\ ranking = NoRanking

NextWithTexts ==
    \/ \E msg \in Texts : Receive(msg)
    \/ \E u \in Users, d \in Gaps : HandleMessage(u, d)

SpecWithTexts == InitWithTexts /\ [][NextWithTexts]_vars

\* ------------------------------------------------------------ the ranking
\* The candidates of one ranking pass, by their genre tags, in the order of
\* the fetch.
CandidateTags ==
    {{}, {"horror"}, {"thriller"}, {"animation"}, {"horror", "family", "animation"}}

CandidateLists == [1 .. 2 -> CandidateTags]

InitScorer ==
    /\ NoSessions
    /\ catalog = Items
    /\ faulty = FALSE
    /\ text = NoText
    /\ \E t \in Magnitudes : ranking = [NoRanking EXCEPT !.tables = t]

\* One ranking pass over fetched candidates for the slots of a session.
Rank(cands, ctx, restrictions) ==
    /\ ranking' = [ranking EXCEPT !.context = ctx, !.restrictions = restrictions,
                                  !.candidates = cands,
                                  !.ranked = RankCandidates(cands, ctx, restrictions,
                                                            ranking.tables)]
    /\ UNCHANGED <<pending_intents, waiting_for, last_recommendation, last_activity,
                   recommended_ids, current_page, turn, catalog, faulty, text>>

NextScorer ==
    \E cands \in CandidateLists, ctx \in SocialContexts,
       restrictions \in {{}, {"no_animation"}} :
        Rank(cands, ctx, restrictions)

SpecScorer == InitScorer /\ [][NextScorer]_vars

\* ------------------------------------------------------------- properties
\* A dictionary as handle_message finds it for user u once the idle check of
\* the turn just stamped has run.
AtDispatch(dict, u) == ExpireIdle(dict, u, last_activity'[u])

\* The idle check of the turn just stamped fired.
IdleFired(u) == Expired(u, last_activity'[u])

Served(out) == out \in {"rec", "empty"}

SessionKeys == {"type", "mood", "strategy"}

\* C1: a new request (an ordinary message with no question pending) ends in
\* exactly one of three ways: a single question is asked and the session waits
\* on that question's key with the extracted slots stored as pending intent;
\* or the recommendation is served and no question is pending; or a
\* clarification is returned and the session is as the turn found it.  The
\* session waits after the turn exactly if a question was asked in it.
C1_NewRequestOutcomes ==
    [][turn'.kind = "new" =>
        LET u == turn'.user
            wf == AtDispatch(waiting_for, u)
            pi == AtDispatch(pending_intents, u)
            lr == AtDispatch(last_recommendation, u)
        IN  /\ \/ /\ turn'.out = "question"
                  /\ turn'.asked \in SessionKeys
                  /\ turn'.fetched = 0
                  /\ u \in DOMAIN waiting_for' /\ waiting_for'[u] = turn'.asked
                  /\ u \in DOMAIN pending_intents'
                  /\ pending_intents'[u] = turn'.parsed
                  /\ last_recommendation' = lr
                  /\ recommended_ids' = recommended_ids
               \/ /\ Served(turn'.out)
                  /\ turn'.asked = None
                  /\ turn'.fetched >= 1
                  /\ u \notin DOMAIN waiting_for'
                  /\ u \in DOMAIN last_recommendation'
                  /\ pending_intents' = pi
               \/ /\ turn'.out = "clarify"
                  /\ turn'.asked = None
                  /\ turn'.fetched = 0
                  /\ waiting_for' = wf
                  /\ pending_intents' = pi
                  /\ last_recommendation' = lr
                  /\ recommended_ids' = recommended_ids
            /\ (u \in DOMAIN waiting_for') <=> (turn'.out = "question")]_vars

C1_Witness ==
    /\ turn.kind = "new"
    /\ turn.out = "question"
    /\ turn.asked = "type"
    /\ turn.user \in DOMAIN waiting_for
    /\ waiting_for[turn.user] = "type"
    /\ pending_intents[turn.user] = turn.parsed

\* C2: while a question is pending, an ordinary message is the answer to it
\* and never a new request; the slots collected before are kept (the genre as
\* it was, a known type as it was, a concrete mood still concrete); afterwards
\* either a question is pending, or the recommendation was served and nothing
\* is pending.
C2_PendingAnswer ==
    [][/\ turn'.kind = "new" =>
            turn'.user \notin DOMAIN AtDispatch(waiting_for, turn'.user)
       /\ turn'.kind = "answer" =>
            LET u == turn'.user
                wf == AtDispatch(waiting_for, u)
                pi == AtDispatch(pending_intents, u)
            IN  /\ u \in DOMAIN wf
                /\ u \in DOMAIN pi
                /\ \/ /\ turn'.out \in {"question", "clarify"}
                      /\ u \in DOMAIN waiting_for'
                      /\ u \in DOMAIN pending_intents'
                   \/ /\ Served(turn'.out)
                      /\ u \notin DOMAIN waiting_for'
                      /\ u \notin DOMAIN pending_intents'
                      /\ u \in DOMAIN last_recommendation'
                /\ LET before == pi[u]
                       after == IF u \in DOMAIN waiting_for'
                                THEN pending_intents'[u]
                                ELSE last_recommendation'[u]
                   IN  /\ after.genre = before.genre
                       /\ before.type \in LegalTypes => after.type = before.type
                       /\ ConcreteMood(before.mood) => ConcreteMood(after.mood)]_vars

C2_Witness ==
    /\ turn.kind = "answer"
    /\ turn.waited = "mood"
    /\ turn.out = "question"
    /\ turn.user \in DOMAIN waiting_for
    /\ waiting_for[turn.user] = "strategy"

\* C3: a greeting returns the welcome text and leaves the user with no
\* pending question, no pending intent, no last recommendation and no seen
\* ids, whatever the session was.
C3_GreetingClears ==
    [][turn'.kind = "greeting" =>
        /\ turn'.out = "welcome"
        /\ turn'.user \notin DOMAIN waiting_for'
        /\ turn'.user \notin DOMAIN pending_intents'
        /\ turn'.user \notin DOMAIN last_recommendation'
        /\ turn'.user \notin DOMAIN recommended_ids']_vars

C3_Witness ==
    /\ turn.kind = "greeting"
    /\ turn.waited # None
    /\ turn.user \notin DOMAIN waiting_for

\* C4: a reset command (/start, /reset, /reiniciar) resets the session like a
\* greeting and returns the welcome text.
C4_StartResets ==
    [][turn'.kind = "start" =>
        /\ turn'.out = "welcome"
        /\ turn'.user \notin DOMAIN waiting_for'
        /\ turn'.user \notin DOMAIN pending_intents'
        /\ turn'.user \notin DOMAIN last_recommendation'
        /\ turn'.user \notin DOMAIN recommended_ids']_vars

\* C5: 'more' for a user with a stored last recommendation fetches with
\* exactly the stored slots, asks nothing, and leaves the stored slots, the
\* pending question and the pending intent as they were.
C5_MoreKeepsState ==
    [][(turn'.kind = "more"
        /\ turn'.user \in DOMAIN AtDispatch(last_recommendation, turn'.user)) =>
        LET u == turn'.user
            lr == AtDispatch(last_recommendation, u)
        IN  /\ Served(turn'.out)
            /\ turn'.asked = None
            /\ turn'.fetched >= 1
            /\ turn'.slots = lr[u]
            /\ last_recommendation' = lr
            /\ waiting_for' = AtDispatch(waiting_for, u)
            /\ pending_intents' = AtDispatch(pending_intents, u)]_vars

C5_Witness ==
    /\ turn.kind = "more"
    /\ turn.out = "rec"
    /\ turn.waited = "mood"
    /\ turn.user \in DOMAIN waiting_for
    /\ waiting_for[turn.user] = "mood"

\* C6: 'more' for a user with no last recommendation returns the no-context
\* notice, fetches nothing, and leaves pending question, pending intent, last
\* recommendation and seen ids as they were.
C6_MoreNoContext ==
    [][(turn'.kind = "more"
        /\ turn'.user \notin DOMAIN AtDispatch(last_recommendation, turn'.user)) =>
        LET u == turn'.user
        IN  /\ turn'.out = "nocontext"
            /\ turn'.fetched = 0
            /\ turn'.shown = {}
            /\ waiting_for' = AtDispatch(waiting_for, u)
            /\ pending_intents' = AtDispatch(pending_intents, u)
            /\ last_recommendation' = AtDispatch(last_recommendation, u)
            /\ recommended_ids' = recommended_ids]_vars

C6_Witness ==
    /\ turn.kind = "more"
    /\ turn.out = "nocontext"
    /\ turn.user \in DOMAIN waiting_for
    /\ Get(recommended_ids, turn.user, {}) # {}

\* A pending key is set or replaced only by a turn that asks that question.
KeySetOnlyByQuestion ==
    \A u \in Users :
        (u \in DOMAIN waiting_for'
         /\ (u \notin DOMAIN waiting_for \/ waiting_for'[u] # waiting_for[u]))
        => (turn'.user = u /\ turn'.out = "question" /\ turn'.asked = waiting_for'[u])

\* C7 as stated: the pending key is set only by a question not yet answered,
\* and it is cleared by every turn that serves a recommendation.
C7_ClearedByAnyServedTurn ==
    [][/\ KeySetOnlyByQuestion
       /\ turn'.out = "rec" => turn'.user \notin DOMAIN waiting_for']_vars

\* C7 amended: the pending key is set or replaced only by a turn that asks
\* that question; a key that survives a turn of its user unchanged was not
\* answered in it (the turn was 'more', a type change or a clarification); the
\* key is cleared when a recommendation is served to an answer or to a new
\* request; 'more' and type change serve without touching it.
C7_PendingKey ==
    [][/\ KeySetOnlyByQuestion
       /\ turn'.kind \in {"more", "change", "answer", "new"} =>
            LET u == turn'.user
                wf == AtDispatch(waiting_for, u)
            IN  /\ (u \in DOMAIN wf /\ u \in DOMAIN waiting_for'
                    /\ waiting_for'[u] = wf[u] /\ turn'.out # "question")
                     => (turn'.kind \in {"more", "change"} \/ turn'.out = "clarify")
                /\ (turn'.kind \in {"answer", "new"} /\ Served(turn'.out))
                     => u \notin DOMAIN waiting_for'
                /\ turn'.kind \in {"more", "change"} => waiting_for' = wf]_vars

C7_Witness ==
    /\ turn.kind = "change"
    /\ turn.out = "rec"
    /\ turn.user \in DOMAIN waiting_for
    /\ waiting_for[turn.user] = "strategy"

\* C8: when the idle check fires, pending intent, pending question and seen
\* ids are all cleared before the message is processed (stated on the turns
\* whose processing changes none of them).
C8_IdleClearsSeenIds ==
    [][(IdleFired(turn'.user) /\ turn'.out \in {"nocontext", "clarify"}) =>
        /\ turn'.user \notin DOMAIN pending_intents'
        /\ turn'.user \notin DOMAIN waiting_for'
        /\ Get(recommended_ids', turn'.user, {}) = {}]_vars

\* C9: every turn that returns items adds all their ids to the user's seen ids.
C9_ShownIdsRecorded ==
    [][turn'.out = "rec" =>
        turn'.shown \subseteq Get(recommended_ids', turn'.user, {})]_vars

\* C10: no turn returns an item that was among the user's seen ids when the
\* turn began, unless the exhausted reset fired in it (type change, which
\* clears the seen ids on purpose, left aside).
C10_NoSeenItemReturned ==
    [][(turn'.out = "rec" /\ turn'.kind # "change" /\ ~turn'.reset) =>
        turn'.shown \cap Get(recommended_ids, turn'.user, {}) = {}]_vars

\* Two 'more' turns of one user in a row, the first of which returned items,
\* both made with the same slots.
ConsecutiveMore ==
    /\ turn.kind = "more" /\ turn.out = "rec"
    /\ turn'.kind = "more" /\ turn'.user = turn.user
    /\ turn'.slots = turn.slots

C12_AtMostOneRetry ==
    [][turn'.kind \in {"more", "change", "answer", "new"} =>
        LET u == turn'.user
        IN  /\ turn'.fetched \in {0, 1, 2}
            /\ turn'.fetched = 2 <=> turn'.reset
            /\ turn'.fetched = 2 =>
                  /\ Get(recommended_ids, u, {}) # {}
                  /\ turn'.seen = {}
                  /\ u \in DOMAIN recommended_ids'
                  /\ recommended_ids'[u] = turn'.shown
            /\ turn'.out = "empty" =>
                  /\ turn'.shown = {}
                  /\ turn'.fetched = 2 \/ turn'.seen = {}
            /\ (turn'.kind = "more" /\ turn'.out = "empty"
                 /\ Get(recommended_ids, u, {}) # {}) => turn'.fetched = 2]_vars

C12_Witness ==
    /\ turn.kind = "more"
    /\ turn.fetched = 2
    /\ turn.reset
    /\ turn.out = "rec"
    /\ recommended_ids[turn.user] = turn.shown

\* C13: a type change for a user with a last recommendation fetches with an
\* empty seen set, so that afterwards the seen ids are exactly the items it
\* returned; in the stored slots only the type changes, to the type named, and
\* the fetch is made with these slots; the reply is the recommendation text
\* and asks nothing.
C13_TypeChange ==
    [][turn'.kind = "change" =>
        LET u == turn'.user
            lr == AtDispatch(last_recommendation, u)
        IN  /\ u \in DOMAIN lr
            /\ turn'.seen = {}
            /\ ~turn'.reset /\ turn'.fetched = 1
            /\ Get(recommended_ids', u, {}) = turn'.shown
            /\ u \in DOMAIN last_recommendation'
            /\ last_recommendation'[u].type \in LegalTypes
            /\ last_recommendation'[u] =
                   [lr[u] EXCEPT !.type = last_recommendation'[u].type]
            /\ turn'.slots = last_recommendation'[u]
            /\ Served(turn'.out)
            /\ turn'.asked = None]_vars

C13_Witness ==
    /\ turn.kind = "change"
    /\ turn.out = "rec"
    /\ turn.slots.type = "series"
    /\ turn.slots.genre = "terror"
    /\ recommended_ids[turn.user] = turn.shown
    /\ Cardinality(turn.shown) = 1

\* C14: a recommendation turn whose fetch yields nothing (also after the
\* exhausted retry) still returns a text, and the slots of the request are
\* stored as the last recommendation; a 'more' turn that follows it at once
\* fetches again with the same slots and asks nothing.
C14_EmptyFetchKeepsSlots ==
    [][/\ turn'.out = "empty" =>
            /\ turn'.shown = {}
            /\ turn'.fetched >= 1
            /\ ~turn'.raised
            /\ turn'.user \in DOMAIN last_recommendation'
            /\ last_recommendation'[turn'.user] = turn'.slots
       /\ (turn.out = "empty" /\ turn'.kind = "more" /\ turn'.user = turn.user
           /\ ~IdleFired(turn'.user)) =>
            /\ Served(turn'.out)
            /\ turn'.fetched >= 1
            /\ turn'.slots = turn.slots
            /\ turn'.asked = None
            /\ last_recommendation' = last_recommendation]_vars

C14_Witness ==
    /\ turn.kind = "answer"
    /\ turn.waited = "strategy"
    /\ turn.out = "empty"
    /\ turn.user \notin DOMAIN waiting_for
    /\ last_recommendation[turn.user] = turn.slots
    /\ turn.slots.match_strategy = "contrast"

\* C15: a turn that replies with a clarification (request not understood,
\* answer to the type question or to the strategy question not recognised)
\* leaves pending question, pending intent, last recommendation and seen ids
\* exactly as it found them, and returns its text.
C15_ClarifyChangesNothing ==
    [][turn'.out = "clarify" =>
        LET u == turn'.user
        IN  /\ waiting_for' = AtDispatch(waiting_for, u)
            /\ pending_intents' = AtDispatch(pending_intents, u)
            /\ last_recommendation' = AtDispatch(last_recommendation, u)
            /\ recommended_ids' = recommended_ids
            /\ ~turn'.raised]_vars

\* The types stored for any user, pending or recommended.
StoredTypes ==
    {pending_intents[u].type : u \in DOMAIN pending_intents}
    \cup {last_recommendation[u].type : u \in DOMAIN last_recommendation}

\* C18: a content type in the model's reply that is not movie, series or
\* music never reaches the session: the extraction of a new request carries
\* one of the three types, and no other value is ever stored in the pending
\* or the recommended slots of a user, whether or not a question is pending.
C18_IllegalTypeNeverStored ==
    /\ StoredTypes \subseteq LegalTypes
    /\ turn.kind = "new" => turn.parsed.type \in LegalTypes

C18_Witness ==
    /\ turn.kind = "new"
    /\ turn.out = "question"
    /\ turn.parsed.type = "music"
    /\ turn.parsed.mood = "feliz"
    /\ pending_intents[turn.user].type = "music"

\* C16: a failure of save_conversation_history never aborts the turn: every
\* turn returns its text, whether or not the history could be written.
C16_PersistenceNeverAborts ==
    [][turn'.kind # "init" => ~turn'.raised]_vars

\* C17: when the catalog fetch of a turn fails, the catalog is not fetched a
\* second time in that turn, and the no-results text is returned.
C17_NoRetryAfterFailure ==
    [][turn'.failed => (turn'.fetched = 1 /\ turn'.out = "empty")]_vars

\* The entry of user v in a dictionary, or nothing.
Entry(dict, v) == IF v \in DOMAIN dict THEN <<dict[v]>> ELSE <<>>

\* C19: a turn of user u leaves the pending question, pending intent, last
\* recommendation, seen ids and timestamp of every other user as they were,
\* and what it reads is u's own: it is an answer exactly if u has a question
\* pending, 'more' and type change serve exactly u's own stored slots, and
\* the seen set of 'more' is u's own.
C19_UsersIndependent ==
    [][turn'.kind # "init" =>
        LET u == turn'.user
        IN  /\ \A v \in TwoUsers \ {u} :
                  /\ Entry(waiting_for', v) = Entry(waiting_for, v)
                  /\ Entry(pending_intents', v) = Entry(pending_intents, v)
                  /\ Entry(last_recommendation', v) = Entry(last_recommendation, v)
                  /\ Entry(recommended_ids', v) = Entry(recommended_ids, v)
                  /\ Entry(last_activity', v) = Entry(last_activity, v)
            /\ turn'.kind = "answer" => u \in DOMAIN AtDispatch(waiting_for, u)
            /\ turn'.kind = "new" => u \notin DOMAIN AtDispatch(waiting_for, u)
            /\ (turn'.kind = "more" /\ turn'.out # "nocontext") =>
                  /\ u \in DOMAIN AtDispatch(last_recommendation, u)
                  /\ turn'.slots = AtDispatch(last_recommendation, u)[u]
                  /\ turn'.fetched = 1 => turn'.seen = Get(recommended_ids, u, {})
            /\ (turn'.kind = "more" /\ turn'.out = "nocontext") =>
                  u \notin DOMAIN AtDispatch(last_recommendation, u)
            /\ turn'.kind = "change" =>
                  /\ u \in DOMAIN AtDispatch(last_recommendation, u)
                  /\ turn'.slots =
                        [AtDispatch(last_recommendation, u)[u] EXCEPT !.type = "movie"]]_vars

C19_Witness ==
    /\ turn.kind = "greeting"
    /\ turn.user = "u1"
    /\ "u1" \notin DOMAIN recommended_ids
    /\ "u2" \in DOMAIN waiting_for
    /\ "u2" \in DOMAIN last_recommendation
    /\ Get(recommended_ids, "u2", {}) # {}
    /\ last_activity["u1"] - last_activity["u2"] > IdleThreshold

\* The types the spec's sequencer lets through its first gate.
ScreenTypes == {"movie", "series"}

\* C21 as stated: a new request whose extraction holds no type in movie /
\* series is answered with the type question and the session awaits the type,
\* and nothing is recommended for slots whose type is not movie or series.
C21_TypeGatedMovieSeries ==
    [][/\ (turn'.kind = "new" /\ turn'.parsed.type \notin ScreenTypes) =>
            /\ turn'.out = "question" /\ turn'.asked = "type"
            /\ Get(waiting_for', turn'.user, None) = "type"
       /\ Served(turn'.out) => turn'.slots.type \in ScreenTypes]_vars

\* C21 amended: the content types are movie, series and music.  A new request
\* whose extraction holds none of them fetches nothing: with a concrete mood
\* it is answered with the type question and the session awaits the type,
\* without one with the clarification and nothing is awaited.  While the type
\* is awaited an answer either serves a recommendation, asks the strategy
\* question, or is not understood and the type stays awaited.  Every fetch is
\* made with slots whose type is one of the three.
C21_TypeGated ==
    [][/\ (turn'.kind = "new" /\ turn'.parsed.type \notin LegalTypes) =>
            /\ turn'.fetched = 0
            /\ ConcreteMood(turn'.parsed.mood) =>
                  /\ turn'.out = "question" /\ turn'.asked = "type"
                  /\ Get(waiting_for', turn'.user, None) = "type"
                  /\ pending_intents'[turn'.user].type \notin LegalTypes
            /\ NeutralMood(turn'.parsed.mood) =>
                  /\ turn'.out = "clarify"
                  /\ turn'.user \notin DOMAIN waiting_for'
       /\ (turn'.kind = "answer" /\ turn'.waited = "type") =>
            \/ Served(turn'.out) /\ turn'.slots.type \in LegalTypes
            \/ /\ turn'.out = "question" /\ turn'.asked = "strategy"
               /\ pending_intents'[turn'.user].type \in LegalTypes
            \/ /\ turn'.out = "clarify"
               /\ Get(waiting_for', turn'.user, None) = "type"
       /\ turn'.fetched >= 1 => turn'.slots.type \in LegalTypes
       /\ turn'.out # "mixed"]_vars

C21_Witness ==
    /\ turn.kind = "new"
    /\ turn.parsed.type = "unknown"
    /\ turn.parsed.genre = "terror"
    /\ turn.out = "question"
    /\ turn.asked = "type"
    /\ turn.fetched = 0
    /\ waiting_for[turn.user] = "type"

\* The step is a call of handle_message with the text in flight (and not the
\* writing of the next text).
Handled == text' = text

\* The questions that can still follow while the key is pending: the strategy
\* question is the last one, the type and the mood question may be followed
\* by it.
QuestionsLeft(key) ==
    IF key \in {"type", "mood"} THEN 2 ELSE IF key = "strategy" THEN 1 ELSE 0

\* A legal value for the question: one of the three types, any mood (a
\* concrete one or none in particular), one of the two strategies.
LegalAnswer(key, msg) ==
    CASE key = "type" -> msg.parsed.type \in LegalTypes
      [] key = "mood" -> msg.parsed.mood \in Moods
      [] key = "strategy" -> msg.strategy \in {"match", "contrast"}
      [] OTHER -> FALSE

\* C22: a new request leaves at most two questions to answer, and every
\* legal answer to the pending question leaves fewer than before: it is never
\* met with a clarification, it is followed either by the recommendation or by
\* the strategy question, and the strategy question is followed by the
\* recommendation.  So the recommendation is reached within three turns (fewer
\* than 7 or 8), and no key is asked a second time.
C22_QuestionsTerminate ==
    [][(Handled /\ turn'.kind \in {"new", "answer"}) =>
        LET u == turn'.user
            before == Get(AtDispatch(waiting_for, u), u, None)
            after == Get(waiting_for', u, None)
        IN  /\ turn'.kind = "new" =>
                  /\ before = None
                  /\ 1 + QuestionsLeft(after) <= 3
                  /\ (after # None) <=> (turn'.out = "question")
            /\ (turn'.kind = "answer" /\ LegalAnswer(before, text')) =>
                  /\ QuestionsLeft(after) < QuestionsLeft(before)
                  /\ turn'.out # "clarify"
                  /\ after # None =>
                        /\ turn'.out = "question"
                        /\ turn'.asked = "strategy" /\ after = "strategy"
                        /\ before \in {"type", "mood"}
                  /\ after = None => Served(turn'.out)]_vars

C22_Witness ==
    /\ turn.kind = "answer"
    /\ turn.waited = "strategy"
    /\ text.strategy = "contrast"
    /\ turn.out = "rec"
    /\ turn.user \notin DOMAIN waiting_for
    /\ last_recommendation[turn.user].type = "series"
    /\ last_recommendation[turn.user].match_strategy = "contrast"

\* The slots of user u after the turn: the pending intent while a question
\* is pending, the last recommendation otherwise.
SlotsAfter(u) ==
    IF u \in DOMAIN waiting_for' THEN pending_intents'[u] ELSE last_recommendation'[u]

\* C23: whatever concrete value the extraction of an understood message
\* holds for a slot (a type, a mood that is not neutral, a genre) is the
\* session's value of that slot after the turn, also when the message answers
\* a question about another slot.
C23_LastConcreteWins ==
    [][(Handled /\ turn'.kind \in {"new", "answer"} /\ turn'.out # "clarify") =>
        LET after == SlotsAfter(turn'.user)
            incoming == text'.parsed
        IN  /\ incoming.type \in LegalTypes => after.type = incoming.type
            /\ ConcreteMood(incoming.mood) => after.mood = incoming.mood
            /\ Truthy(incoming.genre) => after.genre = incoming.genre]_vars

\* The slots of user u as the turn finds them: the pending intent while a
\* question is pending, the last recommendation otherwise.
SlotsBefore(u) ==
    IF u \in DOMAIN AtDispatch(waiting_for, u)
    THEN AtDispatch(pending_intents, u)[u]
    ELSE AtDispatch(last_recommendation, u)[u]

HasSlotsBefore(u) ==
    u \in DOMAIN AtDispatch(waiting_for, u) \cup DOMAIN AtDispatch(last_recommendation, u)

HasSlotsAfter(u) == u \in DOMAIN waiting_for' \cup DOMAIN last_recommendation'

\* A slot that held a value and for which the message brings none holds the
\* value it held.
KeepsWhatIsNotRestated(before, incoming, after) ==
    /\ (before.type \in LegalTypes /\ incoming.type \notin LegalTypes)
          => after.type = before.type
    /\ (ConcreteMood(before.mood) /\ NeutralMood(incoming.mood))
          => after.mood = before.mood
    /\ (Truthy(before.genre) /\ ~Truthy(incoming.genre))
          => after.genre = before.genre

C25_MoreIncrementsPage ==
    [][/\ (turn'.kind = "more" /\ Served(turn'.out)) =>
            /\ turn'.user \in DOMAIN current_page'
            /\ current_page'[turn'.user] = Get(current_page, turn'.user, 1) + 1
       /\ \A u \in DOMAIN current_page' : current_page'[u] \in Nat \ {0}]_vars

\* Where candidate i of the input stands in the ranking.
Place(i) == CHOOSE k \in DOMAIN ranking.ranked : ranking.ranked[k] = i

\* C26 as stated: with the social context family, every candidate tagged
\* horror stands below every candidate not tagged horror, whatever the deltas
\* (within the magnitudes the design allows) and the other tags.
C26_HorrorBelowAll ==
    ranking.context = "family" =>
        \A i, j \in DOMAIN ranking.candidates :
            ("horror" \in ranking.candidates[i] /\ "horror" \notin ranking.candidates[j])
                => Place(j) < Place(i)

\* The subtraction for horror is larger than all the boosts of the family
\* branch together, not only than each of them.
HorrorOutweighsAllBoosts ==
    ranking.tables.horror > ranking.tables.family + ranking.tables.animation

\* Tagged with something the pass subtracts for: dark thriller in the family
\* branch, or the category of an active restriction.
Penalised(tags) ==
    \/ "thriller" \in tags
    \/ \E r \in ranking.restrictions : tags \cap RestrictionCategory(r) # {}

\* C26 amended: with the social context family, and the subtraction for horror
\* larger than the sum of the boosts of the family branch, every candidate
\* tagged horror stands below every candidate that is not tagged horror and
\* carries no penalised tag, whatever boosts apply to either.
C26_HorrorBelowUnpenalised ==
    (ranking.context = "family" /\ HorrorOutweighsAllBoosts) =>
        \A i, j \in DOMAIN ranking.candidates :
            ("horror" \in ranking.candidates[i] /\ "horror" \notin ranking.candidates[j]
             /\ ~Penalised(ranking.candidates[j]))
                => Place(j) < Place(i)

C26_Witness ==
    /\ ranking.context = "family"
    /\ HorrorOutweighsAllBoosts
    /\ ranking.restrictions = {"no_animation"}
    /\ ranking.candidates = <<{"horror", "family", "animation"}, {}>>
    /\ ranking.ranked = <<2, 1>>

\* C27: the users with a pending question are the users with a pending
\* intent, so that the pending intent read for an answer is always there.
C27_PendingKeysAgree == DOMAIN waiting_for = DOMAIN pending_intents

C27_Witness ==
    /\ turn.kind = "answer"
    /\ turn.user = "u1"
    /\ turn.out = "rec"
    /\ DOMAIN waiting_for = {"u2"}
    /\ DOMAIN pending_intents = {"u2"}
    /\ last_activity["u1"] - last_activity["u2"] > IdleThreshold

\* The pending question of every user fits the pending slots.
PendingConsistent ==
    \A u \in DOMAIN waiting_for :
        LET p == pending_intents[u]
        IN  CASE waiting_for[u] = "type" ->
                   p.type = "unknown" /\ ConcreteMood(p.mood)
              [] waiting_for[u] = "mood" ->
                   p.type \in LegalTypes /\ NeutralMood(p.mood)
              [] waiting_for[u] = "strategy" ->
                   p.type \in LegalTypes /\ ConcreteMood(p.mood)
              [] OTHER -> FALSE

\* C28: with an extractor that returns one of movie, series, music and
\* unknown as type, the pending question fits the pending slots after every
\* turn: the type is awaited with no type and a concrete mood, the mood with a
\* type and no concrete mood, the strategy with a type and a concrete mood.
\* So an accepted answer to the type question is followed by the strategy
\* question and never by a recommendation.
C28_QuestionFitsSlots ==
    [][/\ PendingConsistent'
       /\ (turn'.kind = "answer" /\ turn'.waited = "type" /\ turn'.out # "clarify") =>
            /\ turn'.out = "question"
            /\ turn'.asked = "strategy"
            /\ turn'.fetched = 0
            /\ Get(waiting_for', turn'.user, None) = "strategy"]_vars

C28_Witness ==
    /\ turn.kind = "answer"
    /\ turn.waited = "type"
    /\ turn.asked = "strategy"
    /\ waiting_for[turn.user] = "strategy"
    /\ pending_intents[turn.user].type = "music"
    /\ pending_intents[turn.user].mood = "triste"
    /\ pending_intents[turn.user].genre = "terror"

\* C29: with an extractor that returns one of movie, series, music and
\* unknown as type, every stored last recommendation is resolved: its type is
\* one of the three, its strategy is match or contrast, and contrast goes with
\* a concrete mood only.
C29_LastRecommendationResolved ==
    \A u \in DOMAIN last_recommendation :
        LET last == last_recommendation[u]
        IN  /\ last.type \in LegalTypes
            /\ last.match_strategy \in {"match", "contrast"}
            /\ last.match_strategy = "contrast" => ConcreteMood(last.mood)

C29_Witness ==
    /\ turn.kind = "change"
    /\ turn.out = "rec"
    /\ last_recommendation[turn.user].type = "music"
    /\ last_recommendation[turn.user].match_strategy = "contrast"
    /\ last_recommendation[turn.user].mood = "triste"
    /\ last_recommendation[turn.user].genre = None

\* The branch the precedence gives the text in flight: the greeting words
\* first, then the 'more' words, then the words of a type change (for a user
\* with a last recommendation), then the pending question, else a new
\* request; all of it looked up after the idle check.
BranchByPrecedence(u) ==
    IF text'.greeting THEN "greeting"
    ELSE IF text'.more THEN "more"
    ELSE IF text'.tipo_change # None /\ u \in DOMAIN AtDispatch(last_recommendation, u)
    THEN "change"
    ELSE IF u \in DOMAIN AtDispatch(waiting_for, u) THEN "answer"
    ELSE "new"

\* C30: a message is handled by the first branch that applies, in the order
\* idle check, greeting, 'more', type change, pending answer, new request.
\* After an expiry nothing is pending and nothing is stored for the branches
\* that follow.  While a question is pending, a 'more' or type-change message
\* of a user with a last recommendation is served as a recommendation, and the
\* pending question and the pending intent are as before the turn.
C30_Precedence ==
    [][(Handled /\ turn'.kind # "init") =>
        LET u == turn'.user
        IN  /\ turn'.kind = BranchByPrecedence(u)
            /\ IdleFired(u) =>
                  /\ turn'.kind \in {"greeting", "more", "new"}
                  /\ turn'.kind = "more" => turn'.out = "nocontext"
            /\ (turn'.kind \in {"more", "change"}
                 /\ u \in DOMAIN AtDispatch(last_recommendation, u)
                 /\ u \in DOMAIN AtDispatch(waiting_for, u)) =>
                  /\ Served(turn'.out)
                  /\ turn'.fetched >= 1
                  /\ waiting_for' = waiting_for
                  /\ pending_intents' = pending_intents]_vars

C30_Witness ==
    /\ turn.kind = "change"
    /\ text.tipo_change = "series"
    /\ text.parsed.mood = "triste"
    /\ text.strategy = "match"
    /\ turn.waited = "strategy"
    /\ turn.out = "rec"
    /\ waiting_for[turn.user] = "strategy"
    /\ pending_intents[turn.user].type = "movie"
    /\ last_recommendation[turn.user].type = "series"

\* The ids a user has been shown and that are still remembered.
SeenIds(ids, u) == Get(ids, u, {})

\* The turn may shrink the seen set of its user: a greeting, a type change,
\* or a build that reset the exhausted set.
MayShrink == turn'.kind \in {"greeting", "change"} \/ turn'.reset

\* C31: a user's seen set shrinks only in a greeting, a type change or the
\* exhausted reset of that user's turn.  After a reset whose retry returned
\* items the seen set is exactly those items; after a reset whose retry
\* returned nothing the seen set is empty and the reply shows nothing.
C31_SeenIdsShrinkOnlyByReset ==
    [][turn'.kind # "init" =>
        \A u \in DOMAIN recommended_ids \cup {turn'.user} :
            LET before == SeenIds(recommended_ids, u)
                after == SeenIds(recommended_ids', u)
                mine == u = turn'.user
            IN  /\ ~(mine /\ MayShrink) => before \subseteq after
                /\ (mine /\ turn'.reset) =>
                      /\ before # {}
                      /\ turn'.fetched = 2
                      /\ after = turn'.shown
                      /\ turn'.shown = {} <=> turn'.out = "empty"]_vars

\* The exhausted reset fired after both items had been seen, and the retry
\* returned one of them: the seen set is that item alone.
C31_Witness ==
    /\ turn.kind = "more"
    /\ turn.reset
    /\ turn.shown = {1}
    /\ recommended_ids[turn.user] = {1}

\* Seconds since the previous message of the user the turn was for; -1 for a
\* first message.
OwnGap(u) == IF u \in DOMAIN last_activity THEN last_activity'[u] - last_activity[u] ELSE -1

\* C32: the idle check is lazy and strict.  A turn stamps its user's
\* timestamp, whatever the message, and leaves every other user's session and
\* timestamp alone.  If at most 300 s passed since the user's previous message
\* the turn finds the session as the previous turn left it: a pending
\* question is answered, and 'more' is served from the stored slots and
\* leaves all three entries as they were.  If more
\* than 300 s passed, the pending question, the pending intent and the last
\* recommendation are gone: 'more' gets the no-context notice and leaves all
\* three absent, and any other message that is not a greeting is processed as
\* a new request.
C32_LazyStrictExpiry ==
    [][turn'.kind # "init" =>
        LET u == turn'.user
        IN  /\ u \in DOMAIN last_activity'
            /\ \A v \in DOMAIN last_activity : last_activity'[u] >= last_activity[v]
            /\ \A v \in TwoUsers \ {u} :
                  /\ Entry(last_activity', v) = Entry(last_activity, v)
                  /\ Entry(waiting_for', v) = Entry(waiting_for, v)
                  /\ Entry(pending_intents', v) = Entry(pending_intents, v)
                  /\ Entry(last_recommendation', v) = Entry(last_recommendation, v)
            /\ OwnGap(u) <= IdleThreshold =>
                  /\ (u \in DOMAIN waiting_for /\ turn'.kind \notin {"greeting", "more", "change"})
                        => turn'.kind = "answer"
                  /\ turn'.kind = "more" =>
                        /\ Entry(waiting_for', u) = Entry(waiting_for, u)
                        /\ Entry(pending_intents', u) = Entry(pending_intents, u)
                        /\ Entry(last_recommendation', u) = Entry(last_recommendation, u)
                        /\ u \in DOMAIN last_recommendation =>
                              /\ Served(turn'.out)
                              /\ turn'.slots = last_recommendation[u]
            /\ OwnGap(u) > IdleThreshold =>
                  /\ turn'.kind \in {"greeting", "more", "new"}
                  /\ turn'.kind = "more" =>
                        /\ turn'.out = "nocontext"
                        /\ u \notin DOMAIN waiting_for'
                        /\ u \notin DOMAIN pending_intents'
                        /\ u \notin DOMAIN last_recommendation']_vars

\* A user asked, was left with the strategy question and a last
\* recommendation, and wrote 'more' 301 s later, the other user having
\* written in between.
C32_Witness ==
    /\ turn.kind = "more"
    /\ turn.out = "nocontext"
    /\ turn.waited = "strategy"
    /\ turn.user = "u1"
    /\ last_activity["u1"] = IdleThreshold + 1
    /\ "u2" \in DOMAIN last_activity
    /\ last_activity["u2"] = IdleThreshold \div 2 + 1
    /\ "u2" \in DOMAIN waiting_for
    /\ "u1" \notin DOMAIN waiting_for

====
